---- MODULE Spec2Model ----
(***************************************************************************)
(* Model of the prefetch-and-cache engine of websearch-tui                 *)
(* (src/src/prefetch.rs): PrefetchManager, its worker pool and the         *)
(* fetch-extract-persist pipeline.                                         *)
(*                                                                         *)
(* One caller task drives the public API (clear_current_search,            *)
(* prefetch_all, get_status, get_progress, activate_page).  Every          *)
(* prefetch_all spawns one pool task that runs its queue through           *)
(* for_each_concurrent; the pools of earlier calls keep running.  A step   *)
(* of the model is the code between two points at which another task can   *)
(* run: one critical section of a lock, or one filesystem operation.       *)
(***************************************************************************)
EXTENDS Integers, Sequences, FiniteSets, TLC

\* ------------------------------------------------------------------ bounds
\* Number of distinct URLs the search provider can return.
NumUrls == 3
\* Number of API calls the caller task makes in one behaviour.
MaxCalls == 3
\* Number of fetch tasks queued over all pools in one behaviour.
MaxFetches == 3
\* for_each_concurrent limit.  The source sets 12 (prefetch.rs:22); the model
\* runs the same pool with a smaller limit so that a batch longer than the
\* limit fits.
CONCURRENT_LIMIT == 2

URLs == 1..NumUrls

\* ------------------------------------------------- cache key derivation
\* char::is_alphanumeric, on the characters the model uses.
Alnum == {"a", "b", "c", "1",
          "H", "e", "l", "o", "W", "r", "d", "T", "s", "t",
          "M", "u", "p", "i", "S",
          "h", "R", "P", "g", "m", "n", "L"}

\* Url::parse(url).host_str(), as dot-separated labels.
host_str(url) == IF url % 2 = 1 THEN <<"www", "a", "com">> ELSE <<"b", "org">>

RECURSIVE trim_start_www(_)
trim_start_www(labels) ==
    IF Len(labels) > 1 /\ Head(labels) = "www"
    THEN trim_start_www(Tail(labels))
    ELSE labels

\* domain.trim_start_matches("www.").replace('.', "_")
clean_domain(url) == trim_start_www(host_str(url))

\* format!("{:08x}", hasher.finish() & 0xFFFFFFFF): a function of the URL
\* alone, taken to be collision-free on the modelled URLs.
hash_short(url) == <<"h", url>>

\* title.chars().map(..): every character outside [alnum - _ space] -> '_'
map_safe(c) == IF c \in Alnum \/ c = "-" \/ c = "_" \/ c = " " THEN c ELSE "_"

RECURSIVE collapse(_, _)
collapse(safe, prev_was_separator) ==
    IF safe = <<>> THEN <<>>
    ELSE LET c == Head(safe) IN
         IF c = " " \/ c = "_"
         THEN IF prev_was_separator
              THEN collapse(Tail(safe), TRUE)
              ELSE <<"_">> \o collapse(Tail(safe), TRUE)
         ELSE <<c>> \o collapse(Tail(safe), FALSE)

\* The result without the removal of trailing underscores.
trim_end_nothing(s) == s

RECURSIVE trim_end_matches(_)
trim_end_matches(s) ==
    IF s # <<>> /\ s[Len(s)] = "_"
    THEN trim_end_matches(SubSeq(s, 1, Len(s) - 1))
    ELSE s

\* title.chars().map(..).collect()
RECURSIVE map_chars(_)
map_chars(title) ==
    IF title = <<>> THEN <<>>
    ELSE <<map_safe(Head(title))>> \o map_chars(Tail(title))

sanitize_filename(title) == trim_end_matches(collapse(map_chars(title), FALSE))

TITLE_MAX == 30

take(s, n) == SubSeq(s, 1, IF Len(s) < n THEN Len(s) ELSE n)

url_to_filename(url, title) ==
    [domain |-> clean_domain(url),
     hash   |-> hash_short(url),
     title  |-> take(sanitize_filename(title), TITLE_MAX),
     ext    |-> "md"]

\* ------------------------------------------------------------ data model
\* The title the search provider reports for a URL.
TitleOf(url) == IF url % 2 = 1 THEN <<"a", " ", "b", "!">> ELSE <<"c", "1">>

SearchResult(url) == [url |-> url, title |-> TitleOf(url)]

RECURSIVE SeqsNoDup(_, _)
SeqsNoDup(S, n) ==
    IF n = 0 THEN {<<>>}
    ELSE {<<>>} \cup
         UNION {{<<x>> \o t : t \in SeqsNoDup(S \ {x}, n - 1)} : x \in S}

Ranked(q) == \A i \in 1..(Len(q) - 1) : q[i] < q[i + 1]

\* The result lists a search delivers: distinct URLs, here in rank order.
ResultLists == {[i \in 1..Len(q) |-> SearchResult(q[i])] :
                    q \in {x \in SeqsNoDup(URLs, NumUrls) : Ranked(x)}} \ {<<>>}

\* PrefetchStatus
Pending == [tag |-> "Pending"]
InProgress == [tag |-> "InProgress"]
Ready(path) == [tag |-> "Ready", path |-> path]
Cached(path) == [tag |-> "Cached", path |-> path]
Failed(msg) == [tag |-> "Failed", msg |-> msg]
Timeout == [tag |-> "Timeout"]

\* A path is a directory and a file name.
join(dir, filename) == [dir |-> dir, file |-> filename]

\* HashMap::insert
insert(map, k, v) == [x \in DOMAIN map \cup {k} |-> IF x = k THEN v ELSE map[x]]

EmptyMap == [x \in {} |-> Pending]

VARIABLES
    status,            \* HashMap<String, PrefetchStatus>
    completed_count,
    total_count,
    current_search,    \* file names present in <base>/current_search
    active_tabs,       \* file names present in <base>/active_tabs
    pc,                \* position of the caller task
    local,             \* locals of the call the caller task is in
    ret,               \* what the last completed call returned
    pools,             \* one spawned pool task per prefetch_all call
    batch_urls,        \* history: URLs submitted since the last clear
    populated,         \* history: a submit has completed since the last clear
    calls,             \* history: API calls started so far
    mtime,             \* modification time of the files the sweep examines
    app,               \* the fields of App
    lk                 \* the three RwLocks and the tasks that use them

vars == <<status, completed_count, total_count, current_search, active_tabs,
          pc, local, ret, pools, batch_urls, populated, calls, mtime, app, lk>>

shared == <<status, completed_count, total_count, current_search, active_tabs>>

\* No operation of Spec reads a modification time: Spec tracks none.
NoTimes == [p \in {} |-> 0]

NoLocal == [op |-> "none"]
NoRet == [op |-> "none"]

\* The engine's operations as Spec runs them hold a lock for one step only:
\* Spec tracks no lock.
NoLocks == [prog |-> <<>>, at |-> <<>>, held |-> <<>>, queue |-> <<>>]

\* Option<String>
None == [some |-> FALSE]
Some(x) == [some |-> TRUE, val |-> x]

\* App::new().  Indices count from 0, as in the source.
AppNew ==
    [state |-> "Input", results |-> <<>>, selected_index |-> 0,
     scroll_offset |-> 0, selected_items |-> {}, error_message |-> None]

Init ==
    /\ status = EmptyMap
    /\ completed_count = 0
    /\ total_count = 0
    /\ current_search = {}
    /\ active_tabs = {}
    /\ pc = "idle"
    /\ local = NoLocal
    /\ ret = NoRet
    /\ pools = <<>>
    /\ batch_urls = {}
    /\ populated = FALSE
    /\ calls = 0
    /\ mtime = NoTimes
    /\ app = AppNew
    /\ lk = NoLocks

\* The caller task is between two calls and makes another one.
BeginCall ==
    /\ pc = "idle"
    /\ calls < MaxCalls
    /\ calls' = calls + 1
    /\ UNCHANGED <<mtime, app, lk>>

\* ------------------------------------------------- clear_current_search
ClearStatus ==
    /\ BeginCall
    /\ status' = EmptyMap
    /\ pc' = "clear_completed"
    /\ local' = [op |-> "clear_current_search"]
    /\ batch_urls' = {}
    /\ populated' = FALSE
    /\ UNCHANGED <<completed_count, total_count, current_search, active_tabs,
                   ret, pools>>

ClearCompleted ==
    /\ pc = "clear_completed"
    /\ completed_count' = 0
    /\ pc' = "clear_total"
    /\ UNCHANGED <<status, total_count, current_search, active_tabs, local,
                   ret, pools, batch_urls, populated, calls, mtime, app, lk>>

ClearTotal ==
    /\ pc = "clear_total"
    /\ total_count' = 0
    /\ pc' = "clear_files"
    /\ UNCHANGED <<status, completed_count, current_search, active_tabs, local,
                   ret, pools, batch_urls, populated, calls, mtime, app, lk>>

\* entry.path().extension()
extension(filename) == filename.ext

\* The entries a directory loop acts on: those with extension "md".
md_entries(dir_files) == {f \in dir_files : extension(f) = "md"}

\* clear_current_search removing the artifacts of both directories.
remove_old_files_both_dirs(listed) ==
    IF listed
    THEN /\ current_search' = current_search \ md_entries(current_search)
         /\ active_tabs' = active_tabs \ md_entries(active_tabs)
         /\ ret' = [op |-> "clear_current_search", val |-> "Ok"]
    ELSE /\ UNCHANGED <<current_search, active_tabs>>
         /\ ret' = [op |-> "clear_current_search", val |-> "Err"]

\* "Remove old files from current_search": read_dir(..)? returns the error of
\* a failed listing (listed = FALSE); otherwise every .md entry is removed.
\* The result of remove_file is discarded; it is taken to succeed on an entry
\* that was just listed.
remove_old_files(listed) ==
    IF listed
    THEN /\ current_search' = current_search \ md_entries(current_search)
         /\ UNCHANGED active_tabs
         /\ ret' = [op |-> "clear_current_search", val |-> "Ok"]
    ELSE /\ UNCHANGED <<current_search, active_tabs>>
         /\ ret' = [op |-> "clear_current_search", val |-> "Err"]

ClearFiles(listed) ==
    /\ pc = "clear_files"
    /\ remove_old_files(listed)
    /\ pc' = "idle"
    /\ local' = NoLocal
    /\ UNCHANGED <<status, completed_count, total_count, pools,
                   batch_urls, populated, calls, mtime, app, lk>>

\* ----------------------------------------------------------- prefetch_all
exists(dir_files, filename) == filename \in dir_files

\* url_to_filename of the results a search delivers, computed once.
AllResults == {SearchResult(u) : u \in URLs}
FileNames == [r \in AllResults |-> url_to_filename(r.url, r.title)]
filename_of(result) == FileNames[result]

\* The cache check of one result: active_tabs first, then current_search.
is_cached(result) ==
    LET filename == filename_of(result) IN
    exists(active_tabs, filename) \/ exists(current_search, filename)

cache_lookup(result) ==
    LET filename == filename_of(result) IN
    IF exists(active_tabs, filename) THEN join("active_tabs", filename)
    ELSE join("current_search", filename)

\* The results of the list that need fetching, in list order.
to_fetch_of(results) == SelectSeq(results, LAMBDA r : ~is_cached(r))

\* The results of the list that have an artifact, in list order.
cached_of(results) == SelectSeq(results, LAMBDA r : is_cached(r))

\* The (url, path) pairs of the `cached` vector.
cached_paths(results) ==
    {[url |-> r.url, path |-> cache_lookup(r)] :
        r \in {results[i] : i \in {j \in 1..Len(results) : is_cached(results[j])}}}

RECURSIVE insert_cached(_, _)
insert_cached(map, cached) ==
    IF cached = <<>> THEN map
    ELSE insert_cached(insert(map, Head(cached).url, Cached(cache_lookup(Head(cached)))),
                       Tail(cached))

RECURSIVE insert_pending(_, _)
insert_pending(map, to_fetch) ==
    IF to_fetch = <<>> THEN map
    ELSE insert_pending(insert(map, Head(to_fetch).url, Pending), Tail(to_fetch))

UrlsOf(results) == {results[i].url : i \in 1..Len(results)}

RECURSIVE SumLen(_)
SumLen(ps) == IF ps = <<>> THEN 0 ELSE Len(Head(ps).queue) + SumLen(Tail(ps))

\* Fetch tasks queued by the prefetch_all calls made so far.
QueuedSoFar == SumLen(pools)

PfTotal(results) ==
    /\ BeginCall
    /\ QueuedSoFar + Len(results) <= MaxFetches
    /\ total_count' = Len(results)
    /\ pc' = "pf_cached"
    /\ local' = [op |-> "prefetch_all", results |-> results]
    /\ batch_urls' = batch_urls \cup UrlsOf(results)
    /\ populated' = FALSE
    /\ UNCHANGED <<status, completed_count, current_search, active_tabs, ret, pools>>

\* The existence checks and the first critical section of the status lock.
PfCached ==
    /\ pc = "pf_cached"
    /\ status' = insert_cached(status, cached_of(local.results))
    /\ local' = [op |-> "prefetch_all", results |-> local.results,
                 to_fetch |-> to_fetch_of(local.results),
                 cached |-> cached_paths(local.results)]
    /\ pc' = "pf_completed"
    /\ UNCHANGED <<completed_count, total_count, current_search, active_tabs,
                   ret, pools, batch_urls, populated, calls, mtime, app, lk>>

PfCompleted ==
    /\ pc = "pf_completed"
    /\ completed_count' = Len(local.results) - Len(local.to_fetch)
    /\ pc' = "pf_pending"
    /\ UNCHANGED <<status, total_count, current_search, active_tabs, local,
                   ret, pools, batch_urls, populated, calls, mtime, app, lk>>

Queued == [st |-> "queued", out |-> "none"]

\* The second critical section of the status lock, then tokio::spawn.
PfPending ==
    /\ pc = "pf_pending"
    /\ status' = insert_pending(status, local.to_fetch)
    /\ pools' = Append(pools, [queue  |-> local.to_fetch,
                               item   |-> [i \in 1..Len(local.to_fetch) |-> Queued],
                               cached |-> local.cached])
    /\ pc' = "idle"
    /\ local' = NoLocal
    /\ ret' = [op |-> "prefetch_all", val |-> "unit"]
    /\ populated' = TRUE
    /\ UNCHANGED <<completed_count, total_count, current_search, active_tabs,
                   batch_urls, calls, mtime, app, lk>>

\* ------------------------------------------------------- the worker pool
InFlightStates == {"download", "returned", "count"}

\* The futures for_each_concurrent holds for pool b.
InFlight(b) == {i \in 1..Len(pools[b].queue) : pools[b].item[i].st \in InFlightStates}

SetItem(b, i, it) == [pools EXCEPT ![b].item[i] = it]

\* The stream yields the queue in order: the item pulled next is the first
\* one still queued.
NextQueued(b, i) ==
    /\ pools[b].item[i].st = "queued"
    /\ \A j \in 1..(i - 1) : pools[b].item[j].st # "queued"

\* Start of a pool that runs its queue one item at a time.
Start_one_at_a_time(b, i) ==
    /\ NextQueued(b, i)
    /\ InFlight(b) = {}
    /\ status' = insert(status, pools[b].queue[i].url, InProgress)
    /\ pools' = SetItem(b, i, [st |-> "download", out |-> "none"])
    /\ UNCHANGED <<completed_count, total_count, current_search, active_tabs,
                   pc, local, ret, batch_urls, populated, calls, mtime, app, lk>>

\* A free slot: pull the next item; its future marks the URL InProgress.
Start(b, i) ==
    /\ NextQueued(b, i)
    /\ Cardinality(InFlight(b)) < CONCURRENT_LIMIT
    /\ status' = insert(status, pools[b].queue[i].url, InProgress)
    /\ pools' = SetItem(b, i, [st |-> "download", out |-> "none"])
    /\ UNCHANGED <<completed_count, total_count, current_search, active_tabs,
                   pc, local, ret, batch_urls, populated, calls, mtime, app, lk>>

\* prefetch_single_page ---------------------------------------------------
PipelineErrors == {"HTTP 500"}

filepath_of(result) == join("current_search", filename_of(result))

\* Every step succeeded: the file is written and its path returned.
PipelineOk(b, i) ==
    /\ pools[b].item[i].st = "download"
    /\ current_search' = current_search \cup {filepath_of(pools[b].queue[i]).file}
    /\ pools' = SetItem(b, i, [st |-> "returned",
                               out |-> [kind |-> "Ok", path |-> filepath_of(pools[b].queue[i])]])
    /\ UNCHANGED <<status, completed_count, total_count, active_tabs,
                   pc, local, ret, batch_urls, populated, calls, mtime, app, lk>>

\* status_of with the Err(_) arm of the timeout recording Failed.
status_of_elapsed_failed(out) ==
    CASE out.kind = "Ok" -> Ready(out.path)
      [] out.kind = "Err" -> Failed(out.msg)
      [] out.kind = "Elapsed" -> Failed("deadline has elapsed")

\* match fetch_result
status_of(out) ==
    CASE out.kind = "Ok" -> Ready(out.path)
      [] out.kind = "Err" -> Failed(out.msg)
      [] out.kind = "Elapsed" -> Timeout

\* "Update status": the worker's second critical section of the status lock.
update_status(b, i, out) ==
    /\ status' = insert(status, pools[b].queue[i].url, status_of(out))
    /\ pools' = SetItem(b, i, [st |-> "count", out |-> "none"])

\* The pipeline returned Ok(path) and the worker records Ready.
RecordReady(b, i) ==
    /\ pools[b].item[i].st = "returned"
    /\ update_status(b, i, pools[b].item[i].out)
    /\ UNCHANGED <<completed_count, total_count, current_search, active_tabs,
                   pc, local, ret, batch_urls, populated, calls, mtime, app, lk>>

\* A step of the pipeline returned an error, nothing was written, and the
\* worker records Failed.  The return touches no shared state, so it is one
\* step with the critical section that follows it.
RecordFailed(b, i, msg) ==
    /\ pools[b].item[i].st = "download"
    /\ update_status(b, i, [kind |-> "Err", msg |-> msg])
    /\ UNCHANGED <<completed_count, total_count, current_search, active_tabs,
                   pc, local, ret, batch_urls, populated, calls, mtime, app, lk>>

\* timeout(PAGE_TIMEOUT, ..) fires before the pipeline returned, its future
\* is dropped and the worker records Timeout.  The deadline can fire before
\* the write was issued (written = FALSE) or after it was handed to the
\* blocking pool, where it still lands (written = TRUE).
RecordTimeout(b, i, written) ==
    /\ pools[b].item[i].st = "download"
    /\ current_search' = IF written
                         THEN current_search \cup {filepath_of(pools[b].queue[i]).file}
                         ELSE current_search
    /\ update_status(b, i, [kind |-> "Elapsed"])
    /\ UNCHANGED <<completed_count, total_count, active_tabs,
                   pc, local, ret, batch_urls, populated, calls, mtime, app, lk>>

\* "Increment completed count"
Count(b, i) ==
    /\ pools[b].item[i].st = "count"
    /\ completed_count' = completed_count + 1
    /\ pools' = SetItem(b, i, [st |-> "done", out |-> "none"])
    /\ UNCHANGED <<status, total_count, current_search, active_tabs,
                   pc, local, ret, batch_urls, populated, calls, mtime, app, lk>>

Worker(b, i) ==
    \/ Start(b, i)
    \/ PipelineOk(b, i)
    \/ RecordReady(b, i)
    \/ \E msg \in PipelineErrors : RecordFailed(b, i, msg)
    \/ \E written \in BOOLEAN : RecordTimeout(b, i, written)
    \/ Count(b, i)

WorkerStep == \E b \in 1..Len(pools) : \E i \in 1..Len(pools[b].queue) : Worker(b, i)

\* ------------------------------------------------------------ get_status
\* get_status with unwrap_or(InProgress) for a URL without entry.
get_status_default_inprogress(url) ==
    IF url \in DOMAIN status THEN status[url] ELSE InProgress

get_status(url) == IF url \in DOMAIN status THEN status[url] ELSE Pending

GetStatus(url) ==
    /\ BeginCall
    /\ ret' = [op |-> "get_status", url |-> url, val |-> get_status(url)]
    /\ UNCHANGED <<shared, pc, local, pools, batch_urls, populated>>

\* ---------------------------------------------------------- get_progress
GpCompleted ==
    /\ BeginCall
    /\ pc' = "gp_total"
    /\ local' = [op |-> "get_progress", completed |-> completed_count]
    /\ UNCHANGED <<shared, ret, pools, batch_urls, populated>>

GpTotal ==
    /\ pc = "gp_total"
    /\ pc' = "idle"
    /\ local' = NoLocal
    /\ ret' = [op |-> "get_progress", val |-> <<local.completed, total_count>>]
    /\ UNCHANGED <<shared, pools, batch_urls, populated, calls, mtime, app, lk>>

\* --------------------------------------------------------- activate_page
Ok(path) == [kind |-> "Ok", path |-> path]
Err(msg) == [kind |-> "Err", msg |-> msg]
Move == [kind |-> "Move"]

\* The arms of `match status` that return without touching the filesystem;
\* Move stands for the arm that goes on to move the file.
\* activate_match with the Failed arm dropping the reason.
activate_match_no_reason(st) ==
    CASE st.tag \in {"Ready", "Cached"} ->
            IF st.path.dir = "active_tabs" THEN Ok(st.path) ELSE Move
      [] st.tag = "InProgress" -> Err(<<"Page is still loading...">>)
      [] st.tag = "Pending" -> Err(<<"Page prefetch not started">>)
      [] st.tag = "Failed" -> Err(<<"Prefetch failed">>)
      [] st.tag = "Timeout" -> Err(<<"Page timed out after 8 seconds">>)

activate_match(st) ==
    CASE st.tag \in {"Ready", "Cached"} ->
            IF st.path.dir = "active_tabs" THEN Ok(st.path) ELSE Move
      [] st.tag = "InProgress" -> Err(<<"Page is still loading...">>)
      [] st.tag = "Pending" -> Err(<<"Page prefetch not started">>)
      [] st.tag = "Failed" -> Err(<<"Prefetch failed: ", st.msg>>)
      [] st.tag = "Timeout" -> Err(<<"Page timed out after 8 seconds">>)

ActStatus(url) ==
    /\ BeginCall
    /\ LET st == get_status(url)
           arm == activate_match(st) IN
       IF arm.kind = "Move"
       THEN /\ pc' = "act_rename"
            /\ local' = [op |-> "activate_page", url |-> url, status |-> st,
                         source_path |-> st.path,
                         dest_path |-> join("active_tabs", st.path.file)]
            /\ UNCHANGED ret
       ELSE /\ ret' = [op |-> "activate_page", url |-> url, val |-> arm]
            /\ UNCHANGED <<pc, local>>
    /\ UNCHANGED <<shared, pools, batch_urls, populated>>

\* std::fs::rename(&source_path, &dest_path): fails when the source is gone,
\* and on a cross-device move.
ActRename(renamed) ==
    /\ pc = "act_rename"
    /\ renamed => exists(current_search, local.source_path.file)
    /\ IF renamed
       THEN /\ current_search' = current_search \ {local.source_path.file}
            /\ active_tabs' = active_tabs \cup {local.dest_path.file}
            /\ pc' = "idle"
            /\ ret' = [op |-> "activate_page", url |-> local.url, val |-> Ok(local.dest_path)]
            /\ local' = NoLocal
       ELSE /\ pc' = "act_copy"
            /\ UNCHANGED <<current_search, active_tabs, ret, local>>
    /\ UNCHANGED <<status, completed_count, total_count, pools, batch_urls,
                   populated, calls, mtime, app, lk>>

\* The fallback: std::fs::copy(..)?, then `let _ = remove_file(..)`, whose
\* failure (removed = FALSE) is dropped.
ActCopy(removed) ==
    /\ pc = "act_copy"
    /\ IF exists(current_search, local.source_path.file)
       THEN /\ active_tabs' = active_tabs \cup {local.dest_path.file}
            /\ current_search' = IF removed
                                 THEN current_search \ {local.source_path.file}
                                 ELSE current_search
            /\ ret' = [op |-> "activate_page", url |-> local.url, val |-> Ok(local.dest_path)]
       ELSE /\ ret' = [op |-> "activate_page", url |-> local.url,
                       val |-> Err(<<"No such file or directory">>)]
            /\ UNCHANGED <<current_search, active_tabs>>
    /\ pc' = "idle"
    /\ local' = NoLocal
    /\ UNCHANGED <<status, completed_count, total_count, pools, batch_urls,
                   populated, calls, mtime, app, lk>>

Next ==
    \/ \E results \in ResultLists : PfTotal(results)
    \/ PfCached
    \/ PfCompleted
    \/ PfPending
    \/ \E url \in URLs : GetStatus(url)
    \/ GpCompleted
    \/ GpTotal
    \/ \E url \in URLs : ActStatus(url)
    \/ \E renamed \in BOOLEAN : ActRename(renamed)
    \/ \E removed \in BOOLEAN : ActCopy(removed)
    \/ WorkerStep
    \/ ClearStatus
    \/ ClearCompleted
    \/ ClearTotal
    \/ \E listed \in BOOLEAN : ClearFiles(listed)

Spec == Init /\ [][Next]_vars

\* ===================================================== cleanup_old_files
\* Number of artifact names a directory can hold when the sweep runs.
SweepFiles == 2

CACHE_MAX_AGE_DAYS == 5

\* Duration::from_secs(CACHE_MAX_AGE_DAYS * 24 * 60 * 60), in seconds.
max_age == CACHE_MAX_AGE_DAYS * 24 * 60 * 60

\* SystemTime values, in seconds: around the retention window before the
\* latest `now', and one after it.
Mtimes == {0, 1, max_age + 1, max_age + 2}

\* SystemTime::now()
Nows == {max_age, max_age + 1}

\* A directory entry that is no artifact.
OtherFile == [name |-> "notes", ext |-> "txt"]

\* The directory as the object of a failed read_dir.
DirItself == [name |-> ".", ext |-> ""]

ArtifactNames == {url_to_filename(u, TitleOf(u)) : u \in 1..SweepFiles}

dir_files(dir) == IF dir = "active_tabs" THEN active_tabs ELSE current_search

\* The paths of the files present in the two directories.
Paths(active, current) ==
    {join("active_tabs", f) : f \in active} \cup {join("current_search", f) : f \in current}

\* now.duration_since(modified): an error when `modified' is later than `now'.
duration_since(now, modified) ==
    IF modified <= now THEN [kind |-> "Ok", age |-> now - modified]
    ELSE [kind |-> "Err", age |-> 0]

\* The age test with >= in place of >.
expired_at_window(now, modified) ==
    LET d == duration_since(now, modified) IN d.kind = "Ok" /\ d.age >= max_age

\* if let Ok(age) = now.duration_since(modified) { if age > max_age {..} }
expired(now, modified) ==
    LET d == duration_since(now, modified) IN d.kind = "Ok" /\ d.age > max_age

\* The directories as the sweep finds them: any artifacts, with any
\* modification times, and possibly a file that is no artifact.
SweepInit ==
    /\ status = EmptyMap
    /\ completed_count = 0
    /\ total_count = 0
    /\ active_tabs \in SUBSET (ArtifactNames \cup {OtherFile})
    /\ current_search \in SUBSET (ArtifactNames \cup {OtherFile})
    /\ mtime \in [Paths(active_tabs, current_search) -> Mtimes]
    /\ \A p \in DOMAIN mtime : extension(p.file) # "md" => mtime[p] = 0
    /\ app = AppNew
    /\ lk = NoLocks
    /\ pc = "idle"
    /\ local = NoLocal
    /\ ret = NoRet
    /\ pools = <<>>
    /\ batch_urls = {}
    /\ populated = FALSE
    /\ calls = 0

\* cleanup_old_files up to the first cleanup_directory call, made once, at
\* process start (no call has returned yet).  `before',
\* `examined' and `failed' are history: the files at the call, the artifacts
\* whose age was tested, the paths on which a filesystem operation failed.
SweepStart(now) ==
    /\ BeginCall
    /\ ret = NoRet
    /\ pc' = "sweep_list"
    /\ local' = [op |-> "cleanup_old_files", now |-> now, removed_count |-> 0,
                 dir |-> "active_tabs", todo |-> {}, removed |-> 0,
                 before |-> mtime, examined |-> {}, failed |-> {}]
    /\ UNCHANGED <<shared, ret, pools, batch_urls, populated>>

SweepReturn(val) ==
    [op |-> "cleanup_old_files", val |-> val, now |-> local.now,
     before |-> local.before, examined |-> local.examined, failed |-> local.failed]

\* cleanup_directory up to the loop: the directory does not exist ("missing":
\* Ok(0), which is the loop over nothing), read_dir(dir)? fails ("error": the
\* error goes up through both ? operators), or the entries are listed.
SweepList(listing) ==
    /\ pc = "sweep_list"
    /\ listing = "missing" => dir_files(local.dir) = {}
    /\ IF listing = "error"
       THEN /\ pc' = "idle"
            /\ ret' = [SweepReturn([kind |-> "Err", count |-> 0])
                           EXCEPT !.failed = local.failed \cup {join(local.dir, DirItself)}]
            /\ local' = NoLocal
       ELSE /\ pc' = "sweep_loop"
            /\ local' = [local EXCEPT !.todo = dir_files(local.dir), !.removed = 0]
            /\ UNCHANGED ret
    /\ UNCHANGED <<shared, pools, batch_urls, populated, calls, mtime, app, lk>>

\* remove_file(entry.path()) of an entry of directory `dir'.
remove_file(dir, f) ==
    /\ active_tabs' = IF dir = "active_tabs" THEN active_tabs \ {f} ELSE active_tabs
    /\ current_search' = IF dir = "current_search" THEN current_search \ {f} ELSE current_search
    /\ mtime' = [p \in DOMAIN mtime \ {join(dir, f)} |-> mtime[p]]

SweepOutcomes == {"ok", "metadata", "remove"}

\* One turn of the loop of cleanup_directory.  `outcome' names the operation
\* the filesystem refuses for this entry: none ("ok"), metadata()/modified()
\* ("metadata") or remove_file ("remove").
SweepEntry(f, outcome) ==
    /\ pc = "sweep_loop"
    /\ f \in local.todo
    /\ LET path == join(local.dir, f)
           old == expired(local.now, mtime[path]) IN
       IF extension(f) # "md"
       THEN /\ outcome = "ok"
            /\ local' = [local EXCEPT !.todo = @ \ {f}]
            /\ UNCHANGED <<active_tabs, current_search, mtime>>
       ELSE IF outcome = "metadata"
       THEN /\ local' = [local EXCEPT !.todo = @ \ {f}, !.failed = @ \cup {path}]
            /\ UNCHANGED <<active_tabs, current_search, mtime>>
       ELSE IF ~old
       THEN /\ outcome = "ok"
            /\ local' = [local EXCEPT !.todo = @ \ {f}, !.examined = @ \cup {path}]
            /\ UNCHANGED <<active_tabs, current_search, mtime>>
       ELSE IF outcome = "remove"
       THEN /\ local' = [local EXCEPT !.todo = @ \ {f}, !.examined = @ \cup {path},
                                      !.failed = @ \cup {path}]
            /\ UNCHANGED <<active_tabs, current_search, mtime>>
       ELSE /\ remove_file(local.dir, f)
            /\ local' = [local EXCEPT !.todo = @ \ {f}, !.examined = @ \cup {path},
                                      !.removed = @ + 1]
    /\ pc' = pc
    /\ UNCHANGED <<status, completed_count, total_count, ret, pools, batch_urls,
                   populated, calls, app, lk>>

\* Ok(removed) of cleanup_directory for active_tabs: removed_count += .., and
\* on to current_search.
SweepNextDir ==
    /\ pc = "sweep_loop"
    /\ local.todo = {}
    /\ local.dir = "active_tabs"
    /\ pc' = "sweep_list"
    /\ local' = [local EXCEPT !.removed_count = @ + local.removed,
                              !.removed = 0, !.dir = "current_search"]
    /\ UNCHANGED <<shared, ret, pools, batch_urls, populated, calls, mtime, app, lk>>

\* Ok(removed) of cleanup_directory for current_search, then Ok(removed_count).
SweepDone ==
    /\ pc = "sweep_loop"
    /\ local.todo = {}
    /\ local.dir = "current_search"
    /\ pc' = "idle"
    /\ ret' = SweepReturn([kind |-> "Ok", count |-> local.removed_count + local.removed])
    /\ local' = NoLocal
    /\ UNCHANGED <<shared, pools, batch_urls, populated, calls, mtime, app, lk>>

SweepNext ==
    \/ \E now \in Nows : SweepStart(now)
    \/ \E listing \in {"ok", "missing", "error"} : SweepList(listing)
    \/ \E f \in ArtifactNames \cup {OtherFile} : \E outcome \in SweepOutcomes :
           SweepEntry(f, outcome)
    \/ SweepNextDir
    \/ SweepDone

\* cleanup_old_files runs at process start, before any batch is submitted,
\* and never concurrently with itself.
SweepSpec == SweepInit /\ [][SweepNext]_vars

\* ============================================ one batch, step by step
\* What the network, the extractor and the filesystem answer to one run of
\* prefetch_single_page.
AllOk == [send |-> TRUE, status |-> 200, text |-> TRUE, extract |-> TRUE, write |-> "ok"]

\* Every answer with one failing operation, and one with two.
PipelineEnvs ==
    {AllOk,
     [AllOk EXCEPT !.send = FALSE],
     [AllOk EXCEPT !.status = 500],
     [AllOk EXCEPT !.text = FALSE],
     [AllOk EXCEPT !.extract = FALSE],
     [AllOk EXCEPT !.write = "failed"],
     [AllOk EXCEPT !.write = "partial"],
     [AllOk EXCEPT !.extract = FALSE, !.write = "partial"]}

\* response.status().is_success()
is_success(code) == code \in 200..299

\* anyhow::bail!("HTTP {}", response.status())
http_error(code) == IF code = 500 THEN "HTTP 500" ELSE "HTTP other"

\* prefetch_single_page with the file written before the content is
\* extracted.
prefetch_single_page_write_first(result, env) ==
    IF ~env.send THEN [out |-> Err("Failed to download page"), files |-> {}]
    ELSE IF ~is_success(env.status)
    THEN [out |-> Err(http_error(env.status)), files |-> {}]
    ELSE IF ~env.text THEN [out |-> Err("Failed to read response body"), files |-> {}]
    ELSE IF env.write = "failed"
    THEN [out |-> Err("Failed to save markdown file"), files |-> {}]
    ELSE IF env.write = "partial"
    THEN [out |-> Err("Failed to save markdown file"), files |-> {filepath_of(result).file}]
    ELSE IF ~env.extract
    THEN [out |-> Err("Failed to extract content"), files |-> {filepath_of(result).file}]
    ELSE [out |-> Ok(filepath_of(result)), files |-> {filepath_of(result).file}]

\* prefetch_single_page: what it returns and the files it leaves in `dir',
\* each ? and bail! being a return.  A write that fails can leave nothing
\* ("failed") or a truncated file ("partial").
prefetch_single_page(result, env) ==
    IF ~env.send THEN [out |-> Err("Failed to download page"), files |-> {}]
    ELSE IF ~is_success(env.status)
    THEN [out |-> Err(http_error(env.status)), files |-> {}]
    ELSE IF ~env.text THEN [out |-> Err("Failed to read response body"), files |-> {}]
    ELSE IF ~env.extract THEN [out |-> Err("Failed to extract content"), files |-> {}]
    ELSE IF env.write = "failed"
    THEN [out |-> Err("Failed to save markdown file"), files |-> {}]
    ELSE IF env.write = "partial"
    THEN [out |-> Err("Failed to save markdown file"), files |-> {filepath_of(result).file}]
    ELSE [out |-> Ok(filepath_of(result)), files |-> {filepath_of(result).file}]

\* The pipeline of task i returns before the deadline.
PipelineReturns(b, i, env) ==
    /\ pools[b].item[i].st = "download"
    /\ LET run == prefetch_single_page(pools[b].queue[i], env) IN
       /\ current_search' = current_search \cup run.files
       /\ pools' = SetItem(b, i, [st |-> "returned", out |-> run.out])
    /\ UNCHANGED <<status, completed_count, total_count, active_tabs,
                   pc, local, ret, batch_urls, populated, calls, mtime, app, lk>>

RECURSIVE SeqsUpTo(_, _)
SeqsUpTo(S, n) ==
    IF n = 0 THEN {<<>>}
    ELSE {<<>>} \cup UNION {{<<x>> \o t : t \in SeqsUpTo(S, n - 1)} : x \in S}

\* The result lists of a provider that does not remove duplicates
\* (duckduckgo_search, searxng_search, brave_search): any URLs, in any order.
AnyResultLists ==
    {[i \in 1..Len(q) |-> SearchResult(q[i])] : q \in SeqsUpTo(URLs, MaxFetches)} \ {<<>>}

AllNames == {url_to_filename(u, TitleOf(u)) : u \in URLs}

\* The first search of a process whose directories hold artifacts of
\* earlier runs.
BatchInit ==
    /\ status = EmptyMap
    /\ completed_count = 0
    /\ total_count = 0
    /\ current_search \in SUBSET AllNames
    /\ active_tabs \in SUBSET AllNames
    /\ pc = "idle"
    /\ local = NoLocal
    /\ ret = NoRet
    /\ pools = <<>>
    /\ batch_urls = {}
    /\ populated = FALSE
    /\ calls = 0
    /\ mtime = NoTimes
    /\ app = AppNew
    /\ lk = NoLocks

BatchWorker(b, i) ==
    \/ Start(b, i)
    \/ \E env \in PipelineEnvs : PipelineReturns(b, i, env)
    \/ RecordReady(b, i)
    \/ \E written \in BOOLEAN : RecordTimeout(b, i, written)
    \/ Count(b, i)

BatchNext ==
    \/ \E results \in AnyResultLists : pools = <<>> /\ PfTotal(results)
    \/ PfCached
    \/ PfCompleted
    \/ PfPending
    \/ \E b \in 1..Len(pools) : \E i \in 1..Len(pools[b].queue) : BatchWorker(b, i)

BatchSpec == BatchInit /\ [][BatchNext]_vars

\* ==================================================== sanitize_filename
\* Longest title drawn, in characters.
MaxTitle == 4

\* A letter, a digit, the two characters kept as they are, a space and a
\* character that is none of these.
TitleChars == {"a", "1", "-", "_", " ", "!"}

\* The titles of tests::test_sanitize_filename.
HelloWorldTest ==
    <<"H", "e", "l", "l", "o", " ", "W", "o", "r", "l", "d", "!", " ", "T", "e", "s", "t">>
MultipleSpaces ==
    <<"M", "u", "l", "t", "i", "p", "l", "e", " ", " ", " ", "S", "p", "a", "c", "e", "s">>

Titles == SeqsUpTo(TitleChars, MaxTitle) \cup {HelloWorldTest, MultipleSpaces}

SanitizeInit ==
    /\ status = EmptyMap
    /\ completed_count = 0
    /\ total_count = 0
    /\ current_search = {}
    /\ active_tabs = {}
    /\ pc = "idle"
    /\ local \in {[op |-> "sanitize_filename", title |-> t] : t \in Titles}
    /\ ret = NoRet
    /\ pools = <<>>
    /\ batch_urls = {}
    /\ populated = FALSE
    /\ calls = 0
    /\ mtime = NoTimes
    /\ app = AppNew
    /\ lk = NoLocks

\* url_to_filename calls sanitize_filename(title).
Sanitize ==
    /\ pc = "idle"
    /\ local.op = "sanitize_filename"
    /\ ret' = [op |-> "sanitize_filename", title |-> local.title,
               val |-> sanitize_filename(local.title)]
    /\ local' = NoLocal
    /\ UNCHANGED <<shared, pc, pools, batch_urls, populated, calls, mtime, app, lk>>

SanitizeNext == Sanitize

SanitizeSpec == SanitizeInit /\ [][SanitizeNext]_vars

\* ====================================================== url_to_filename
\* Longest run of letters a drawn title starts with.
MaxPad == 30
\* Longest tail that follows the run, in characters.
MaxTail == 2

\* The title of tests::test_url_to_filename.
TheRustProgrammingLanguage ==
    <<"T", "h", "e", " ", "R", "u", "s", "t", " ",
      "P", "r", "o", "g", "r", "a", "m", "m", "i", "n", "g", " ",
      "L", "a", "n", "g", "u", "a", "g", "e">>

\* Titles on both sides of the cap: a run of letters and a short tail.
LongTitles ==
    {[i \in 1..k |-> "a"] \o t : k \in 0..MaxPad, t \in SeqsUpTo(TitleChars, MaxTail)}
        \cup {TheRustProgrammingLanguage}

FilenameInit ==
    /\ status = EmptyMap
    /\ completed_count = 0
    /\ total_count = 0
    /\ current_search = {}
    /\ active_tabs = {}
    /\ pc = "idle"
    /\ local \in {[op |-> "url_to_filename", url |-> u, title |-> t] :
                       u \in URLs, t \in LongTitles}
    /\ ret = NoRet
    /\ pools = <<>>
    /\ batch_urls = {}
    /\ populated = FALSE
    /\ calls = 0
    /\ mtime = NoTimes
    /\ app = AppNew
    /\ lk = NoLocks

\* prefetch_all and prefetch_single_page call url_to_filename(url, title).
Filename ==
    /\ pc = "idle"
    /\ local.op = "url_to_filename"
    /\ ret' = [op |-> "url_to_filename", url |-> local.url, title |-> local.title,
               val |-> url_to_filename(local.url, local.title)]
    /\ local' = NoLocal
    /\ UNCHANGED <<shared, pc, pools, batch_urls, populated, calls, mtime, app, lk>>

FilenameNext == Filename

FilenameSpec == FilenameInit /\ [][FilenameNext]_vars

\* ================================================================== App
\* What the methods of App leave alone.
engine == <<shared, pc, local, pools, batch_urls, populated, calls, mtime, lk>>

\* The lists a search hands to finish_search, the empty one included.
FoundLists == ResultLists \cup {<<>>}

\* The messages main.rs passes to show_error.
ErrorMessages == {"Search failed", "Neovim error"}

start_search ==
    /\ app' = [app EXCEPT !.state = "Searching", !.results = <<>>,
                          !.selected_index = 0, !.scroll_offset = 0,
                          !.selected_items = {}]
    /\ ret' = [op |-> "start_search"]
    /\ UNCHANGED engine

\* finish_search that enters Error without a message.
finish_search_no_message(results) ==
    /\ app' = [app EXCEPT !.results = results,
                          !.state = IF results = <<>> THEN "Error" ELSE "Results",
                          !.selected_index = 0, !.scroll_offset = 0]
    /\ ret' = [op |-> "finish_search", results |-> results]
    /\ UNCHANGED engine

finish_search(results) ==
    /\ app' = [app EXCEPT !.results = results,
                          !.error_message = IF results = <<>>
                                            THEN Some("No results found") ELSE @,
                          !.state = IF results = <<>> THEN "Error" ELSE "Results",
                          !.selected_index = 0, !.scroll_offset = 0]
    /\ ret' = [op |-> "finish_search", results |-> results]
    /\ UNCHANGED engine

show_error_to(a, message) ==
    [a EXCEPT !.error_message = Some(message), !.state = "Error"]

show_error(message) ==
    /\ app' = show_error_to(app, message)
    /\ ret' = [op |-> "show_error"]
    /\ UNCHANGED engine

dismiss_error ==
    /\ app' = [app EXCEPT !.error_message = None,
                          !.state = IF app.results = <<>> THEN "Input" ELSE "Results"]
    /\ ret' = [op |-> "dismiss_error"]
    /\ UNCHANGED engine

next_result ==
    /\ app' = IF app.results # <<>>
              THEN [app EXCEPT !.selected_index = (@ + 1) % Len(app.results)]
              ELSE app
    /\ ret' = [op |-> "next_result"]
    /\ UNCHANGED engine

previous_result ==
    /\ app' = IF app.results # <<>>
              THEN [app EXCEPT !.selected_index =
                                  IF @ = 0 THEN Len(app.results) - 1 ELSE @ - 1]
              ELSE app
    /\ ret' = [op |-> "previous_result"]
    /\ UNCHANGED engine

toggle_selection ==
    /\ app' = [app EXCEPT !.selected_items =
                              IF app.selected_index \in @
                              THEN @ \ {app.selected_index}
                              ELSE @ \cup {app.selected_index}]
    /\ ret' = [op |-> "toggle_selection"]
    /\ UNCHANGED engine

\* The indices open_in_browser goes through.
indices_to_open ==
    IF app.selected_items = {} THEN {app.selected_index} ELSE app.selected_items

\* open_url fails for one of the results (failed) or for none.
open_in_browser(failed) ==
    /\ failed => \E idx \in indices_to_open : idx < Len(app.results)
    /\ app' = IF failed
              THEN show_error_to(app, "Failed to open URL")
              ELSE [app EXCEPT !.selected_items = {}]
    /\ ret' = [op |-> "open_in_browser"]
    /\ UNCHANGED engine

back_to_input ==
    /\ app' = [app EXCEPT !.state = "Input"]
    /\ ret' = [op |-> "back_to_input"]
    /\ UNCHANGED engine

\* Width of usize in the model (the source's targets have 64 bits).
UsizeBits == 16
USIZE_MAX == 2^UsizeBits - 1

\* Tallest results area drawn, in lines.
MaxHeight == 14

Panic(msg) == [kind |-> "Panic", msg |-> msg]
Value(n) == [kind |-> "Value", val |-> n]

\* usize::saturating_sub
saturating_sub(a, b) == IF a >= b THEN a - b ELSE 0

\* `a - b` on usize: with overflow checks (the dev profile) an underflow
\* panics, without them (the release profile) it wraps.
usize_sub(a, b, overflow_checks) ==
    IF a >= b THEN Value(a - b)
    ELSE IF overflow_checks THEN Panic("attempt to subtract with overflow")
    ELSE Value((a - b) % (USIZE_MAX + 1))

scroll_offset_of(selected_index, visible_height, overflow_checks) ==
    LET items_per_screen == saturating_sub(visible_height, 2) \div 4 IN
    IF selected_index >= items_per_screen
    THEN LET d == usize_sub(items_per_screen, 1, overflow_checks) IN
         IF d.kind = "Panic" THEN d
         ELSE Value(saturating_sub(selected_index, d.val))
    ELSE Value(0)

get_scroll_offset(visible_height, overflow_checks) ==
    /\ ret' = [op |-> "get_scroll_offset", visible_height |-> visible_height,
               selected_index |-> app.selected_index,
               val |-> scroll_offset_of(app.selected_index, visible_height,
                                        overflow_checks)]
    /\ UNCHANGED <<app, engine>>

\* A panic ends the process.
Panicked == ret.op = "get_scroll_offset" /\ ret.val.kind = "Panic"

AppStep ==
    \/ start_search
    \/ \E results \in FoundLists : finish_search(results)
    \/ \E message \in ErrorMessages : show_error(message)
    \/ dismiss_error
    \/ next_result
    \/ previous_result
    \/ toggle_selection
    \/ \E failed \in BOOLEAN : open_in_browser(failed)
    \/ back_to_input
    \/ \E visible_height \in 0..MaxHeight : \E overflow_checks \in BOOLEAN :
            get_scroll_offset(visible_height, overflow_checks)

AppNext == ~Panicked /\ AppStep

AppSpec == Init /\ [][AppNext]_vars

\* ============================================================ the locks
\* Tasks that call the public API on clones of the manager.
LockCallers == 2

Locks == {"status", "completed_count", "total_count"}

CallerTasks == {<<"caller", n>> : n \in 1..LockCallers}
\* Fetch tasks that can be running at one time.
LockFetches == 2

FetchTasks == {<<"fetch", n>> : n \in 1..LockFetches}
LockTasks == CallerTasks \cup FetchTasks

\* lock.read().await / lock.write().await, the drop of the guard, and
\* tokio::spawn of the pool ([ins |-> "spawn"]).
Acq(lock, mode) == [ins |-> "acquire", lock |-> lock, mode |-> mode]
Rel(lock) == [ins |-> "release", lock |-> lock]

\* The lock operations of each function, in program order.
clear_current_search_locks ==
    <<Acq("status", "write"), Rel("status"),
      Acq("completed_count", "write"), Rel("completed_count"),
      Acq("total_count", "write"), Rel("total_count")>>

prefetch_all_locks ==
    <<Acq("total_count", "write"), Rel("total_count"),
      Acq("status", "write"), Rel("status"),
      Acq("completed_count", "write"), Rel("completed_count"),
      Acq("status", "write"), Rel("status"),
      [ins |-> "spawn"]>>

fetch_task_locks ==
    <<Acq("status", "write"), Rel("status"),
      Acq("status", "write"), Rel("status"),
      Acq("completed_count", "write"), Rel("completed_count")>>

get_status_locks == <<Acq("status", "read"), Rel("status")>>

get_all_statuses_locks == <<Acq("status", "read"), Rel("status")>>

\* get_progress keeping both guards to its end.
get_progress_locks_guards_kept ==
    <<Acq("completed_count", "read"), Acq("total_count", "read"),
      Rel("total_count"), Rel("completed_count")>>

\* `*self.completed_count.read().await`: the guard is a temporary, dropped
\* at the end of its statement.
get_progress_locks ==
    <<Acq("completed_count", "read"), Rel("completed_count"),
      Acq("total_count", "read"), Rel("total_count")>>

\* activate_page takes no lock but through self.get_status(url).
activate_page_locks == get_status_locks

ApiLocks ==
    {clear_current_search_locks, prefetch_all_locks, get_status_locks,
     get_all_statuses_locks, get_progress_locks, activate_page_locks}

Active(t) == lk.prog[t] # <<>>
Instr(t) == lk.prog[t][lk.at[t]]
Waiting(t, lock) == \E i \in 1..Len(lk.queue[lock]) : lk.queue[lock][i].task = t
HeldBy(t) == {lock \in Locks : \E h \in lk.held[lock] : h.task = t}

LockInit ==
    /\ status = EmptyMap
    /\ completed_count = 0
    /\ total_count = 0
    /\ current_search = {}
    /\ active_tabs = {}
    /\ pc = "idle"
    /\ local = NoLocal
    /\ ret = NoRet
    /\ pools = <<>>
    /\ batch_urls = {}
    /\ populated = FALSE
    /\ calls = 0
    /\ mtime = NoTimes
    /\ app = AppNew
    /\ lk = [prog  |-> [t \in LockTasks |-> <<>>],
             at    |-> [t \in LockTasks |-> 1],
             held  |-> [lock \in Locks |-> {}],
             queue |-> [lock \in Locks |-> <<>>]]

LockOnly == <<shared, pc, local, ret, pools, batch_urls, populated, mtime, app>>

\* A caller task enters a function of the API.
LockCall(t, prog) ==
    /\ t \in CallerTasks
    /\ ~Active(t)
    /\ calls < MaxCalls
    /\ calls' = calls + 1
    /\ lk' = [lk EXCEPT !.prog[t] = prog, !.at[t] = 1]
    /\ UNCHANGED LockOnly

\* .read() / .write(): the task joins the queue of the lock.
LockRequest(t) ==
    /\ Active(t)
    /\ lk.at[t] <= Len(lk.prog[t])
    /\ Instr(t).ins = "acquire"
    /\ ~Waiting(t, Instr(t).lock)
    /\ lk' = [lk EXCEPT !.queue[Instr(t).lock] = Append(@, [task |-> t, mode |-> Instr(t).mode])]
    /\ UNCHANGED <<LockOnly, calls>>

\* tokio's RwLock is fair: it serves its queue first in, first out, a writer
\* when nobody holds the lock and a reader when no writer holds it.
LockGrant(lock) ==
    /\ lk.queue[lock] # <<>>
    /\ LET w == Head(lk.queue[lock]) IN
       /\ IF w.mode = "write" THEN lk.held[lock] = {}
          ELSE \A h \in lk.held[lock] : h.mode = "read"
       /\ lk' = [lk EXCEPT !.queue[lock] = Tail(@),
                           !.held[lock] = @ \cup {w},
                           !.at[w.task] = @ + 1]
    /\ UNCHANGED <<LockOnly, calls>>

\* The guard is dropped.
LockRelease(t) ==
    /\ Active(t)
    /\ lk.at[t] <= Len(lk.prog[t])
    /\ Instr(t).ins = "release"
    /\ lk' = [lk EXCEPT !.held[Instr(t).lock] = {h \in @ : h.task # t},
                        !.at[t] = @ + 1]
    /\ UNCHANGED <<LockOnly, calls>>

\* tokio::spawn: the fetch tasks of the new pool start, on the free task
\* identities of lowest number.
LockSpawn(t, tasks) ==
    /\ Active(t)
    /\ lk.at[t] <= Len(lk.prog[t])
    /\ Instr(t).ins = "spawn"
    /\ tasks \subseteq {f \in FetchTasks : ~Active(f)}
    /\ \A f \in tasks : \A g \in FetchTasks : (~Active(g) /\ g[2] < f[2]) => g \in tasks
    /\ lk' = [lk EXCEPT !.at[t] = @ + 1,
                        !.prog = [f \in LockTasks |->
                                     IF f \in tasks THEN fetch_task_locks ELSE @[f]]]
    /\ UNCHANGED <<LockOnly, calls>>

\* The function returns, or the fetch task ends.
LockReturn(t) ==
    /\ Active(t)
    /\ lk.at[t] > Len(lk.prog[t])
    /\ lk' = [lk EXCEPT !.prog[t] = <<>>, !.at[t] = 1]
    /\ UNCHANGED <<LockOnly, calls>>

\* The steps of tasks that are inside a function, and of the locks.
LockRun ==
    \/ \E t \in LockTasks : LockRequest(t)
    \/ \E lock \in Locks : LockGrant(lock)
    \/ \E t \in LockTasks : LockRelease(t)
    \/ \E t \in LockTasks : \E tasks \in SUBSET FetchTasks : LockSpawn(t, tasks)
    \/ \E t \in LockTasks : LockReturn(t)

LockNext ==
    \/ \E t \in CallerTasks : \E prog \in ApiLocks : LockCall(t, prog)
    \/ LockRun

\* The runtime schedules every task that can take a step.
LockSpec == LockInit /\ [][LockNext]_vars /\ WF_vars(LockRun)

\* ====================================================== fair scheduling
\* A process that submits one search after another.
SubmitNext ==
    \/ \E results \in ResultLists : PfTotal(results)
    \/ PfCached
    \/ PfCompleted
    \/ PfPending
    \/ WorkerStep

\* The caller is inside prefetch_all and runs on to its return.
SubmitContinues == PfCached \/ PfCompleted \/ PfPending

\* The runtime schedules every spawned task that can take a step, and the
\* caller's task.
FairSubmitSpec ==
    Init /\ [][SubmitNext]_vars /\ WF_vars(WorkerStep) /\ WF_vars(SubmitContinues)

\* The runtime schedules every pool task; nothing is assumed of the fetches
\* in flight, which may take as long as they like: only for_each_concurrent
\* pulling the next item of some pool is fair.
StartFairSpec ==
    /\ Init
    /\ [][SubmitNext]_vars
    /\ WF_vars(\E b \in 1..Len(pools) : \E i \in 1..Len(pools[b].queue) : Start(b, i))

\* ================================================================ claims
Terminal == {"Ready", "Cached", "Failed", "Timeout"}

\* The pool of the most recent prefetch_all.
Current == pools[Len(pools)]

\* C1: once a batch submitted after clear_current_search is populated, every
\* key of the status table is a URL submitted since that clear.
C1_OnlyCurrentBatchKeys == populated => DOMAIN status \subseteq batch_urls

\* A step in which the caller task returns from activate_page.
ActivateReturns ==
    /\ pc' = "idle"
    /\ \/ pc \in {"act_rename", "act_copy"}
       \/ calls' = calls + 1 /\ ret'.op = "activate_page"

\* The state get_status gave the activate_page call that returns in this step.
ActivateSnapshot ==
    IF pc = "idle" THEN get_status(ret'.url) ELSE local.status

\* C2: activate_page of a URL that is Ready or Cached succeeds; called again
\* right after a successful call for the same URL it returns the same path,
\* and the cache key then has exactly one artifact, in active_tabs.
C2_PromoteIdempotent ==
    [][(ActivateReturns /\ ActivateSnapshot.tag \in {"Ready", "Cached"}) =>
          /\ ret'.val.kind = "Ok"
          /\ (ret.op = "activate_page" /\ ret.url = ret'.url /\ ret.val.kind = "Ok") =>
                /\ ret'.val = ret.val
                /\ exists(active_tabs', ret'.val.path.file)
                /\ ~exists(current_search', ret'.val.path.file)]_vars

\* C3: activate_page returns an error and changes neither the table, the
\* counters nor any file when the URL is Pending or InProgress (not ready)
\* or Failed or Timeout (prefetch failed, with the reason of a Failed); it
\* returns a path only when the URL is Ready or Cached.
C3_PromoteRejects ==
    [][ActivateReturns =>
          LET st == ActivateSnapshot IN
          /\ st.tag = "Pending" => ret'.val = Err(<<"Page prefetch not started">>)
          /\ st.tag = "InProgress" => ret'.val = Err(<<"Page is still loading...">>)
          /\ st.tag = "Failed" => ret'.val = Err(<<"Prefetch failed: ", st.msg>>)
          /\ st.tag = "Timeout" => ret'.val = Err(<<"Page timed out after 8 seconds">>)
          /\ st.tag \notin {"Ready", "Cached"} => UNCHANGED shared
          /\ ret'.val.kind = "Ok" => st.tag \in {"Ready", "Cached"}]_vars

\* C3 witness: activate_page was refused for a URL whose fetch failed, and
\* the table still holds that Failed entry.
C3_Witness ==
    /\ ret.op = "activate_page"
    /\ ret.val.kind = "Err"
    /\ ret.url \in DOMAIN status
    /\ status[ret.url].tag = "Failed"
    /\ ret.val.msg = <<"Prefetch failed: ", status[ret.url].msg>>

\* C4: while the batch of the latest prefetch_all is current, every result
\* whose artifact existed at the cache check is Cached with that path, and
\* no fetch task of that batch was queued for it.
C4_CacheHitStaysCached ==
    populated =>
        \A h \in Current.cached :
            /\ h.url \in DOMAIN status
            /\ status[h.url] = Cached(h.path)
            /\ \A i \in 1..Len(Current.queue) : Current.queue[i].url # h.url

\* Pipeline runs in flight, over all pools.
Running ==
    {<<b, i>> \in (1..Len(pools)) \X (1..MaxFetches) :
        i <= Len(pools[b].queue) /\ pools[b].item[i].st = "download"}

\* C5: at most CONCURRENT_LIMIT entries are InProgress and at most
\* CONCURRENT_LIMIT pipeline runs are in flight.
C5_ConcurrencyBound ==
    /\ Cardinality({u \in DOMAIN status : status[u].tag = "InProgress"}) <= CONCURRENT_LIMIT
    /\ Cardinality(Running) <= CONCURRENT_LIMIT

\* Pending -> InProgress -> {Ready, Failed, Timeout}; terminal states stay.
Ordered(a, b) ==
    \/ a = b
    \/ a.tag = "Pending" /\ b.tag = "InProgress"
    \/ a.tag = "InProgress" /\ b.tag \in {"Ready", "Failed", "Timeout"}

\* A step of a worker task (no pool is spawned, one item moves on).
IsWorkerStep == pools' # pools /\ Len(pools') = Len(pools)

\* C6: a worker step moves an entry of the table only along
\* Pending -> InProgress -> {Ready, Failed, Timeout}; an entry that is Ready,
\* Cached, Failed or Timeout is not changed by any worker.
C6_OrderedTransitions ==
    [][IsWorkerStep =>
          \A u \in DOMAIN status :
              u \in DOMAIN status' /\ Ordered(status[u], status'[u])]_vars

\* Every result of the current batch has recorded a terminal state: the
\* cached ones at the cache check, the fetched ones in "Update status".
AllRecorded ==
    \A i \in 1..Len(Current.queue) : Current.item[i].st \in {"count", "done"}

\* C7, first half: completed does not decrease while a batch is populated.
C7_CompletedMonotonic ==
    [][(populated /\ populated') => completed_count' >= completed_count]_vars

\* C7, second half: while a batch is populated, completed equals total only
\* when every result of the batch has recorded a terminal state.
C7_CompletedMeansDone ==
    (populated /\ completed_count = total_count) => AllRecorded

\* C8: a worker whose deadline fires before the pipeline returned records
\* Timeout for its URL, whether or not the write had been issued, and its
\* remaining step (the counter) leaves the table alone.
C8_DeadlineGivesTimeout ==
    [][\A b \in 1..Len(pools) : \A i \in 1..Len(pools[b].queue) :
          /\ (\E written \in BOOLEAN : RecordTimeout(b, i, written)) =>
                status'[pools[b].queue[i].url] = Timeout
          /\ Count(b, i) => UNCHANGED status]_vars

\* C8 witness: a worker recorded Timeout although the artifact was written.
C8_Witness ==
    \E b \in 1..Len(pools) : \E i \in 1..Len(pools[b].queue) :
        LET r == pools[b].queue[i] IN
        /\ pools[b].item[i].st = "count"
        /\ r.url \in DOMAIN status
        /\ status[r.url] = Timeout
        /\ exists(current_search, filepath_of(r).file)

\* C9: get_status returns the entry of the URL, Pending when there is none,
\* always one of the six states, and changes neither table nor counters.
C9_StatusTotal ==
    [][(calls' = calls + 1 /\ pc' = "idle" /\ ret'.op = "get_status") =>
          /\ ret'.url \in DOMAIN status => ret'.val = status[ret'.url]
          /\ ret'.url \notin DOMAIN status => ret'.val = Pending
          /\ ret'.val.tag \in {"Pending", "InProgress"} \cup Terminal
          /\ UNCHANGED <<status, completed_count, total_count>>]_vars

\* C9 witness: get_status returned Pending for a URL the table has no entry
\* for, while the table has entries for other URLs.
C9_Witness ==
    /\ ret.op = "get_status"
    /\ ret.url \notin DOMAIN status
    /\ ret.val = Pending
    /\ DOMAIN status # {}

\* C10: while clear_current_search has cleared the table and completed or
\* total still holds the old value, no other task takes a step: nobody reads
\* or writes the cleared table next to the old counters.
C10_ClearAtomic ==
    [][(/\ pc \in {"clear_completed", "clear_total"}
        /\ (completed_count /= 0 \/ total_count /= 0)) => (pc' /= pc)]_vars

\* The caller task is between two calls and the last call that returned is a
\* clear_current_search that returned Ok.
ClearReturnedOk ==
    /\ pc = "idle"
    /\ ret.op = "clear_current_search"
    /\ ret.val = "Ok"

\* C11: from the return of a successful clear_current_search until the caller
\* makes its next call, current_search holds no artifact, also when fetch
\* tasks of the batch before the call were still in flight.
C11_StagingEmptyAfterClear == ClearReturnedOk => md_entries(current_search) = {}

ClearPcs == {"clear_completed", "clear_total", "clear_files"}

\* C12: from the first to the last step of clear_current_search, whether it
\* returns Ok or Err, no step of any task adds a file to active_tabs or
\* removes one from it.
C12_ClearKeepsPromoted ==
    [][(pc \in ClearPcs \/ pc' \in ClearPcs) => UNCHANGED active_tabs]_vars

\* C12 witness: clear_current_search returned Ok while active_tabs holds a
\* promoted artifact.
C12_Witness == ClearReturnedOk /\ md_entries(active_tabs) # {}

\* cleanup_old_files has returned.
SweepReturned == pc = "idle" /\ ret.op = "cleanup_old_files"

\* The paths present when the sweep was called, now, and the ones it deleted.
SweepBefore == DOMAIN ret.before
SweepAfter == Paths(active_tabs, current_search)
SweepDeleted == SweepBefore \ SweepAfter

Artifact(p) == extension(p.file) = "md"

\* The age of the file, from its modification time to the sweep's `now', is
\* greater than the retention window of 5 days.
OlderThanWindow(p) == ret.now - ret.before[p] > max_age

\* C13: when cleanup_old_files has returned, every file it deleted is an
\* artifact older than the retention window and nothing else changed; when no
\* filesystem operation of the call failed, every artifact older than the
\* window is deleted and the call returns Ok with the number of deleted
\* files, which is 0 on empty directories.
C13_SweepByAge ==
    SweepReturned =>
        /\ SweepAfter \subseteq SweepBefore
        /\ \A p \in SweepAfter : mtime[p] = ret.before[p]
        /\ \A p \in SweepDeleted : Artifact(p) /\ OlderThanWindow(p)
        /\ ret.failed = {} =>
              /\ \A p \in SweepBefore : (Artifact(p) /\ OlderThanWindow(p)) => p \in SweepDeleted
              /\ ret.val = [kind |-> "Ok", count |-> Cardinality(SweepDeleted)]
        /\ ret.val.kind = "Ok" => ret.val.count = Cardinality(SweepDeleted)

\* C13 witness: a sweep without filesystem failure deleted two artifacts and
\* kept one whose age is exactly the retention window.
C13_Witness ==
    /\ SweepReturned
    /\ ret.failed = {}
    /\ ret.val = [kind |-> "Ok", count |-> 2]
    /\ \E p \in SweepAfter : Artifact(p) /\ ret.now - ret.before[p] = max_age

\* C14: cleanup_old_files always returns Ok with the number of deleted files,
\* and every artifact of both directories was either tested for its age or
\* refused by the filesystem itself, whatever else failed.
C14_SweepNeverAborts ==
    SweepReturned =>
        /\ ret.val = [kind |-> "Ok", count |-> Cardinality(SweepDeleted)]
        /\ \A p \in SweepBefore : Artifact(p) => p \in ret.examined \cup ret.failed

\* Every fetch task of every pool has run to its end.
AllPoolsDone ==
    \A b \in 1..Len(pools) : \A i \in 1..Len(pools[b].queue) : pools[b].item[i].st = "done"

\* The number of results of the latest prefetch_all: cache hits plus fetches.
BatchSize == Cardinality(Current.cached) + Len(Current.queue)

\* C15: under fair scheduling every URL a prefetch_all queued eventually has
\* a terminal entry in the table, once a batch is populated completed
\* eventually equals total, and every pool eventually has run all of its
\* queue, whatever the pipelines of the other URLs returned.
IsQueued(b, i) == b <= Len(pools) /\ i <= Len(pools[b].queue)

EveryUrlTerminal ==
    \A b \in 1..MaxCalls : \A i \in 1..MaxFetches :
        IsQueued(b, i) ~>
            (IsQueued(b, i) /\ get_status(pools[b].queue[i].url).tag \in Terminal)

CompletedReachesTotal == populated ~> (completed_count = total_count)

EveryPoolTerminates ==
    \A b \in 1..MaxCalls :
        (b <= Len(pools)) ~>
            (b <= Len(pools) /\
             \A i \in 1..Len(pools[b].queue) : pools[b].item[i].st = "done")

C15_BatchRunsToCompletion ==
    EveryUrlTerminal /\ CompletedReachesTotal /\ EveryPoolTerminates

\* C16: once the latest batch is submitted and all work has finished, total
\* and completed equal the number of its results, every cache hit is Cached
\* with the path found, and every fetched URL is Ready with its path in
\* current_search, Failed with a pipeline error, or Timeout.
C16_EndState ==
    (populated /\ AllPoolsDone) =>
        /\ total_count = BatchSize
        /\ completed_count = BatchSize
        /\ \A h \in Current.cached : get_status(h.url) = Cached(h.path)
        /\ \A i \in 1..Len(Current.queue) :
              get_status(Current.queue[i].url) \in
                  {Ready(filepath_of(Current.queue[i])), Timeout}
                      \cup {Failed(msg) : msg \in PipelineErrors}

\* C17: while the latest batch is populated and completed equals total, no
\* worker step changes an entry of the table or the completed counter.
C17_DoneIsStable ==
    [][(populated /\ completed_count = total_count /\ IsWorkerStep) =>
          UNCHANGED <<status, completed_count>>]_vars

\* C18: the fetch tasks spawned by one prefetch_all write pairwise distinct
\* files of current_search, whatever the result list, duplicates included.
C18_DistinctPaths ==
    \A b \in 1..Len(pools) : \A i, j \in 1..Len(pools[b].queue) :
        i # j => filepath_of(pools[b].queue[i]) # filepath_of(pools[b].queue[j])

\* Download, HTTP success check, body read and extraction all succeeded.
StagesOk(env) ==
    env.send /\ env.status >= 200 /\ env.status < 300 /\ env.text /\ env.extract

\* C19: a run of prefetch_single_page adds at most its own file to
\* current_search, and only when download, HTTP check, body read and
\* extraction all succeeded; it returns Ok only with the file written, and a
\* run in which one of those steps fails returns an error and leaves both
\* directories as they were.
C19_PipelineFailsAsUnit ==
    [][\A b \in 1..Len(pools) : \A i \in 1..Len(pools[b].queue) :
          \A env \in PipelineEnvs :
              (pools'[b].item[i].st = "returned" /\ PipelineReturns(b, i, env)) =>
                  LET file == filepath_of(pools[b].queue[i]).file
                      out == pools'[b].item[i].out IN
                  /\ current_search' \subseteq current_search \cup {file}
                  /\ current_search \subseteq current_search'
                  /\ (current_search' # current_search) => StagesOk(env)
                  /\ out.kind = "Ok" => (StagesOk(env) /\ file \in current_search')
                  /\ ~StagesOk(env) =>
                        /\ out.kind = "Err"
                        /\ UNCHANGED <<current_search, active_tabs>>]_vars

\* C19 witness: a run returned the extraction error and its file is not in
\* current_search.
C19_Witness ==
    \E b \in 1..Len(pools) : \E i \in 1..Len(pools[b].queue) :
        /\ pools[b].item[i].st = "returned"
        /\ pools[b].item[i].out = Err("Failed to extract content")
        /\ filepath_of(pools[b].queue[i]).file \notin current_search

\* A character the result keeps as it is: alphanumeric or '-'.
Kept(c) == c \in Alnum \/ c = "-"

\* The title with every maximal run of other characters (spaces and
\* underscores included) replaced by one "_", and a run at the end dropped.
RunsToUnderscore(title) ==
    LET n == Len(title)
        mark == [i \in 1..n |->
                    IF Kept(title[i]) THEN title[i]
                    ELSE IF /\ (i = 1 \/ Kept(title[i - 1]))
                            /\ \E j \in (i + 1)..n : Kept(title[j])
                    THEN "_"
                    ELSE "drop"]
    IN SelectSeq(mark, LAMBDA c : c # "drop")

\* C20: the result of sanitize_filename holds only alphanumeric characters,
\* '-' and '_', has no two '_' in a row, does not end with '_', and is the
\* title with every run of spaces and other characters turned into one '_'.
C20_SanitizedTitle ==
    ret.op = "sanitize_filename" =>
        LET r == ret.val IN
        /\ \A i \in 1..Len(r) : r[i] \in Alnum \cup {"-", "_"}
        /\ \A i \in 1..(Len(r) - 1) : ~(r[i] = "_" /\ r[i + 1] = "_")
        /\ r # <<>> => r[Len(r)] # "_"
        /\ r = RunsToUnderscore(ret.title)

\* C20 witness: "Hello World! Test" gave "Hello_World_Test".
C20_Witness ==
    /\ ret.op = "sanitize_filename"
    /\ ret.title = HelloWorldTest
    /\ ret.val = <<"H", "e", "l", "l", "o", "_", "W", "o", "r", "l", "d", "_", "T", "e", "s", "t">>

\* C21: the title component of the filename url_to_filename returns has at
\* most 30 characters and does not end with '_', and the filename is made of
\* the cleaned domain, the hash of the URL, that title and the extension md.
C21_FilenameShape ==
    ret.op = "url_to_filename" =>
        LET f == ret.val IN
        /\ Len(f.title) <= TITLE_MAX
        /\ f.title # <<>> => f.title[Len(f.title)] # "_"
        /\ f.domain = clean_domain(ret.url)
        /\ f.hash = hash_short(ret.url)
        /\ f.ext = "md"

\* C22: when activate_page returns Ok for a URL whose artifact was in
\* current_search, by the rename or by the copy and delete, the file is in
\* active_tabs at the returned path and no longer in current_search.
ActMoveReturnsOk ==
    /\ pc \in {"act_rename", "act_copy"}
    /\ pc' = "idle"
    /\ ret'.val.kind = "Ok"

C22_PromoteMoves ==
    [][ActMoveReturnsOk =>
          /\ ret'.val.path.dir = "active_tabs"
          /\ exists(active_tabs', ret'.val.path.file)
          /\ ~exists(current_search', ret'.val.path.file)]_vars

\* C23: whenever a pool has fewer than CONCURRENT_LIMIT fetches in flight and
\* an item still queued, the start of the next queued item is possible at
\* once, and it happens whether or not the fetches in flight ever finish.
FreeSlot(b, i) ==
    /\ IsQueued(b, i)
    /\ NextQueued(b, i)
    /\ Cardinality(InFlight(b)) < CONCURRENT_LIMIT

Started(b, i) == IsQueued(b, i) /\ pools[b].item[i].st # "queued"

C23_WorkConserving ==
    /\ [](\A b \in 1..MaxCalls : \A i \in 1..MaxFetches :
            FreeSlot(b, i) => ENABLED Start(b, i))
    /\ \A b \in 1..MaxCalls : \A i \in 1..MaxFetches :
            FreeSlot(b, i) ~> Started(b, i)

\* C23 witness: the third item of a pool was started when the second had
\* finished, while the first is still being fetched.
C23_Witness ==
    \E b \in 1..Len(pools) :
        /\ Len(pools[b].queue) = 3
        /\ pools[b].item[1].st = "download"
        /\ pools[b].item[2].st = "done"
        /\ pools[b].item[3].st = "download"

\* C24: start_search leaves Searching with results, index and selection
\* cleared; finish_search leaves Results for a non-empty list and Error with
\* "No results found" for an empty one; dismiss_error leaves no message and
\* Input or Results by whether results is empty; and whenever the state is
\* Error a message is set.
C24_SearchStates ==
    /\ ret.op = "start_search" =>
            /\ app.state = "Searching"
            /\ app.results = <<>>
            /\ app.selected_index = 0
            /\ app.selected_items = {}
    /\ ret.op = "finish_search" =>
            /\ app.results = ret.results
            /\ ret.results # <<>> => app.state = "Results"
            /\ ret.results = <<>> =>
                    app.state = "Error" /\ app.error_message = Some("No results found")
    /\ ret.op = "dismiss_error" =>
            /\ app.error_message = None
            /\ app.state = IF app.results = <<>> THEN "Input" ELSE "Results"
    /\ app.state = "Error" => app.error_message.some

\* C24 witness: a search that found nothing ended in Error with its message.
C24_Witness ==
    /\ ret.op = "finish_search"
    /\ ret.results = <<>>
    /\ app.state = "Error"
    /\ app.error_message = Some("No results found")

\* C25: in every reachable state completed is at most total.
C25_CompletedAtMostTotal == completed_count <= total_count

\* C26: while a batch is populated, completed is at most the number of its
\* results, cache hits and fetches, whose entry in the table is terminal.
TerminalResults ==
    Cardinality({c \in Current.cached : get_status(c.url).tag \in Terminal})
        + Cardinality({i \in 1..Len(Current.queue) :
                          get_status(Current.queue[i].url).tag \in Terminal})

C26_CounterBehindTable == populated => completed_count <= TerminalResults

\* C27: whenever the table holds Ready(path) or Cached(path) for a URL, a
\* file exists at that path.
FileAt(path) ==
    IF path.dir = "active_tabs" THEN exists(active_tabs, path.file)
    ELSE exists(current_search, path.file)

C27_ReadyHasFile ==
    \A url \in DOMAIN status :
        status[url].tag \in {"Ready", "Cached"} => FileAt(status[url].path)

\* C28: no task holds one of the three locks while it requests another, and
\* every request of a lock is eventually granted: a task leaves the queue of
\* a lock only as a holder of it, and again and again no task is waiting.
NobodyWaits == \A t \in LockTasks : \A lock \in Locks : ~Waiting(t, lock)

C28_LocksNeverNested ==
    /\ [](\A t \in LockTasks : \A lock \in Locks :
            Waiting(t, lock) => HeldBy(t) = {})
    /\ [][\A t \in LockTasks : \A lock \in Locks :
            (Waiting(t, lock) /\ ~Waiting(t, lock)') => (lock \in HeldBy(t)')]_vars
    /\ []<>NobodyWaits

\* C28 witness: a fetch task waits for the status lock while a caller holds
\* it and another caller holds completed_count.
C28_Witness ==
    \E f \in FetchTasks : \E c, d \in CallerTasks :
        /\ Waiting(f, "status")
        /\ "status" \in HeldBy(c)
        /\ "completed_count" \in HeldBy(d)

\* C29: a URL fetched once in the batch whose entry is Failed or Timeout has
\* no file under its cache key in current_search.
FetchedOnce(b, i) ==
    \A j \in 1..Len(pools[b].queue) :
        pools[b].queue[j].url = pools[b].queue[i].url => j = i

C29_FailedLeavesNoFile ==
    \A b \in 1..Len(pools) : \A i \in 1..Len(pools[b].queue) :
        (/\ FetchedOnce(b, i)
         /\ pools[b].item[i].st \in {"count", "done"}
         /\ get_status(pools[b].queue[i].url).tag \in {"Failed", "Timeout"})
            => ~exists(current_search, filepath_of(pools[b].queue[i]).file)

\* C30: in get_scroll_offset, when the index is at or beyond the items of a
\* screen, items_per_screen - 1 is a value of usize; the call returns, and
\* its offset is at most selected_index.
C30_ScrollOffsetInRange ==
    ret.op = "get_scroll_offset" =>
        LET items_per_screen == saturating_sub(ret.visible_height, 2) \div 4 IN
        /\ ret.selected_index >= items_per_screen =>
                items_per_screen - 1 \in 0..USIZE_MAX
        /\ ret.val.kind = "Value"
        /\ ret.val.val <= ret.selected_index
====
